---- MODULE Spec2Model ----
(***************************************************************************)
(* Kruskal's algorithm of mst.py: every pair of point indices is a         *)
(* candidate edge ((cost, key), i, j); the edges are sorted and scanned    *)
(* once, the connected components being kept as a list of disjoint sets.   *)
(*                                                                         *)
(* Node indices are 0-based as in the source.  Positions in the lists      *)
(* sorted_edges, sets and found are 1-based (TLA+ sequences), one more     *)
(* than the Python index.  An edge ((cost, key), i, j) is the record       *)
(* [cost, key, i, j].                                                      *)
(***************************************************************************)
EXTENDS Integers, Sequences, FiniteSets

VARIABLES
    instance,      \* mst(instance): the list of points
    sorted_edges,  \* mst: sorted_edges
    sets,          \* mst: sets, the list of components
    edges,         \* mst: edges, the accepted edges
    idx,           \* position of the for loop of line 73 in sorted_edges
    pc,            \* "start", "loop", "check", "done", "assert_found", "assert_check"
    last,          \* what the last iteration of the loop did with its edge
    runs,          \* number of calls of mst() started on this instance
    prevTotal      \* total cost returned by the previous call, -1 if none

vars == <<instance, sorted_edges, sets, edges, idx, pc, last, runs, prevTotal>>

\* ------------------------------------------------------------------ bounds
\* Coordinates of the enumerated point sets are 0..MaxCoord.
MaxCoord == 1
\* The enumerated point sets have 0..MaxN points.
MaxN == 2
\* Calls of mst() on one instance in SpecRuns.
MaxRuns == 2

\* ------------------------------------------------------------------ inputs
Grid == (0..MaxCoord) \X (0..MaxCoord)

RECURSIVE SeqsUpTo(_, _)
SeqsUpTo(S, n) ==
    IF n = 0 THEN {<<>>}
    ELSE LET shorter == SeqsUpTo(S, n - 1)
         IN  shorter \cup {Append(s, x) : s \in {t \in shorter : Len(t) = n - 1}, x \in S}

GridInstances == SeqsUpTo(Grid, MaxN)

\* Three points with pairwise costs 3, 4, 5.
ScenarioA == <<<<0, 0>>, <<3, 0>>, <<3, 4>>>>
\* Four collinear points at unit spacing.
ScenarioB == <<<<0, 0>>, <<1, 0>>, <<2, 0>>, <<3, 0>>>>
\* The unit square: all six edges cost 1.
ScenarioD == <<<<0, 0>>, <<1, 0>>, <<1, 1>>, <<0, 1>>>>
\* Two close pairs far apart: the pairs form first and are merged last.
TwoPairs == <<<<0, 0>>, <<0, 1>>, <<4, 0>>, <<4, 1>>>>

\* Two coincident points and a third one: an edge of cost 0.
Coincident == <<<<0, 0>>, <<0, 0>>, <<1, 0>>>>
\* Three points whose three edges all cost 1.
Corner == <<<<0, 0>>, <<1, 0>>, <<0, 1>>>>

Instances ==
    GridInstances \cup {ScenarioA, ScenarioB, ScenarioD, TwoPairs, Coincident, Corner}

\* ------------------------------------------------------------------ distance
\* round(s ** 0.5) for an integer s >= 0: the k with k - 1/2 < sqrt(s) < k + 1/2.
\* (An exact half never occurs: (2k+1)^2 is odd, 4s is even.)
RoundSqrt(s) ==
    IF s = 0 THEN 0
    ELSE CHOOSE k \in 1..s : (2 * k - 1) * (2 * k - 1) < 4 * s /\ 4 * s < (2 * k + 1) * (2 * k + 1)

distance(inst, i, j) ==
    LET ix == inst[i + 1][1]
        iy == inst[i + 1][2]
        jx == inst[j + 1][1]
        jy == inst[j + 1][2]
        dx == jx - ix
        dy == jy - iy
    IN  RoundSqrt(dx * dx + dy * dy)

Min(a, b) == IF a < b THEN a ELSE b
Max(a, b) == IF a < b THEN b ELSE a

\* random.randint(0, len(instance)): both ends included.
RandInts(inst) == 0..Len(inst)

\* make_edge with the value r drawn by random.randint.
make_edge(inst, i, j, r) ==
    [cost |-> distance(inst, i, j), key |-> r, i |-> Min(i, j), j |-> Max(i, j)]

\* The pairs (i, j) in the order of the two nested loops of make_sorted_edges.
PairSeq(n) ==
    LET P == {p \in (0..(n - 1)) \X (0..(n - 1)) : p[1] < p[2]}
        before(q, p) == q[1] < p[1] \/ (q[1] = p[1] /\ q[2] < p[2])
    IN  [k \in 1..Cardinality(P) |-> CHOOSE p \in P : Cardinality({q \in P : before(q, p)}) = k - 1]

\* The order with the key compared before the cost.
EdgeLessByKeyFirst(e, f) ==
    \/ e.key < f.key
    \/ e.key = f.key /\ e.cost < f.cost
    \/ e.key = f.key /\ e.cost = f.cost /\ e.i < f.i
    \/ e.key = f.key /\ e.cost = f.cost /\ e.i = f.i /\ e.j < f.j

\* Python's order on the tuples ((cost, key), i, j).
EdgeLess(e, f) ==
    \/ e.cost < f.cost
    \/ e.cost = f.cost /\ e.key < f.key
    \/ e.cost = f.cost /\ e.key = f.key /\ e.i < f.i
    \/ e.cost = f.cost /\ e.key = f.key /\ e.i = f.i /\ e.j < f.j

\* list.sort() of a list of edges (no two of them equal: their (i, j) differ).
Sort(s) ==
    LET before(k) == Cardinality({m \in 1..Len(s) : EdgeLess(s[m], s[k])})
    IN  [p \in 1..Len(s) |-> s[CHOOSE k \in 1..Len(s) : before(k) = p - 1]]

\* make_sorted_edges, keys[k] being the value random.randint returns for the
\* k-th edge made.
make_sorted_edges(inst, keys) ==
    LET pairs == PairSeq(Len(inst))
    IN  Sort([k \in 1..Len(pairs) |-> make_edge(inst, pairs[k][1], pairs[k][2], keys[k])])

KeyChoices(inst) == [1..Len(PairSeq(Len(inst))) -> RandInts(inst)]

\* ------------------------------------------------------------------ mst
\* The scan of lines 75-82: the positions of the sets holding exactly one
\* endpoint of e, up to the first set holding both (cyclic, scan abandoned).
RECURSIVE Scan(_, _, _, _)
Scan(ss, e, i, found) ==
    IF i > Len(ss) THEN [cyclic |-> FALSE, found |-> found]
    ELSE IF e.i \in ss[i] /\ e.j \in ss[i] THEN [cyclic |-> TRUE, found |-> found]
    ELSE IF e.i \in ss[i] \/ e.j \in ss[i] THEN Scan(ss, e, i + 1, Append(found, i))
    ELSE Scan(ss, e, i + 1, found)

\* The scan without the test of line 78: no edge is ever found cyclic.
RECURSIVE ScanNoCyclic(_, _, _, _)
ScanNoCyclic(ss, e, i, found) ==
    IF i > Len(ss) THEN [cyclic |-> FALSE, found |-> found]
    ELSE IF e.i \in ss[i] \/ e.j \in ss[i] THEN ScanNoCyclic(ss, e, i + 1, Append(found, i))
    ELSE ScanNoCyclic(ss, e, i + 1, found)

ClassifyNeverCyclic(ss, e) == ScanNoCyclic(ss, e, 1, <<>>)

\* Lines 75-82: found and cyclic for the edge e.
Classify(ss, e) == Scan(ss, e, 1, <<>>)

\* sets.pop(k) (k a 1-based position).
Pop(ss, k) == [p \in 1..(Len(ss) - 1) |-> IF p < k THEN ss[p] ELSE ss[p + 1]]

\* Lines 88-97 with the merge of two sets leaving the second one in the list.
ApplyNoPop(ss, found, e) ==
    IF Len(found) = 0 THEN Append(ss, {e.i, e.j})
    ELSE IF Len(found) = 1 THEN [ss EXCEPT ![found[1]] = @ \cup {e.i, e.j}]
    ELSE [ss EXCEPT ![found[1]] = @ \cup ss[found[2]]]

\* Lines 88-97 with the endpoints of an edge that touches one set not added to it.
ApplyForgetsExtend(ss, found, e) ==
    IF Len(found) = 0 THEN Append(ss, {e.i, e.j})
    ELSE IF Len(found) = 1 THEN ss
    ELSE IF Len(found) = 2 THEN Pop([ss EXCEPT ![found[1]] = @ \cup ss[found[2]]], found[2])
    ELSE ss

\* Lines 88-97 with an edge that touches one set opening a new set.
ApplyNewSet(ss, found, e) ==
    IF Len(found) = 0 \/ Len(found) = 1 THEN Append(ss, {e.i, e.j})
    ELSE IF Len(found) = 2 THEN Pop([ss EXCEPT ![found[1]] = @ \cup ss[found[2]]], found[2])
    ELSE ss

\* Lines 88-97: create a new set, add to an existing one, or merge two.
Apply(ss, found, e) ==
    IF Len(found) = 0 THEN Append(ss, {e.i, e.j})
    ELSE IF Len(found) = 1 THEN [ss EXCEPT ![found[1]] = @ \cup {e.i, e.j}]
    ELSE IF Len(found) = 2 THEN Pop([ss EXCEPT ![found[1]] = @ \cup ss[found[2]]], found[2])
    ELSE ss

Kind(found) ==
    IF Len(found) = 0 THEN "NewPair"
    ELSE IF Len(found) = 1 THEN "ExtendsOne"
    ELSE IF Len(found) = 2 THEN "MergesTwo"
    ELSE "TooMany"

\* Line 101 with the test made two edges early.
AllIncludedTooEarly(es, inst) == Len(es) = Len(inst) - 2

\* Line 101: the test that ends the loop.
AllIncluded(es, inst) == Len(es) = Len(inst)

\* Lines 105-108: the nodes the accepted edges touch.
Check(es) == {es[k].i : k \in 1..Len(es)} \cup {es[k].j : k \in 1..Len(es)}

RECURSIVE SumCost(_, _)
SumCost(es, k) == IF k = 0 THEN 0 ELSE es[k].cost + SumCost(es, k - 1)

\* Line 168: the total cost of an edge list.
Total(es) == SumCost(es, Len(es))

\* ------------------------------------------------------------------ actions
Init ==
    /\ instance \in Instances
    /\ sorted_edges = <<>>
    /\ sets = <<>>
    /\ edges = <<>>
    /\ idx = 1
    /\ pc = "start"
    /\ last = "none"
    /\ runs = 1
    /\ prevTotal = -1

\* Lines 70-72: the keys are drawn, the edges made and sorted.
MakeSortedEdges ==
    /\ pc = "start"
    /\ \E keys \in KeyChoices(instance) :
           sorted_edges' = make_sorted_edges(instance, keys)
    /\ sets' = <<>>
    /\ edges' = <<>>
    /\ idx' = 1
    /\ last' = "none"
    /\ pc' = "loop"
    /\ UNCHANGED <<instance, runs, prevTotal>>

\* Lines 73-102: one iteration of the loop.
LoopBody ==
    /\ pc = "loop"
    /\ idx <= Len(sorted_edges)
    /\ LET e == sorted_edges[idx]
           c == Classify(sets, e)
       IN  IF c.cyclic
           THEN /\ last' = "Cyclic"
                /\ idx' = idx + 1
                /\ UNCHANGED <<sets, edges, pc>>
           ELSE IF Len(c.found) > 2
           THEN /\ pc' = "assert_found"
                /\ last' = "TooMany"
                /\ UNCHANGED <<sets, edges, idx>>
           ELSE /\ sets' = Apply(sets, c.found, e)
                /\ edges' = Append(edges, e)
                /\ last' = Kind(c.found)
                /\ IF AllIncluded(edges', instance)
                   THEN pc' = "check" /\ idx' = idx
                   ELSE pc' = pc /\ idx' = idx + 1
    /\ UNCHANGED <<instance, sorted_edges, runs, prevTotal>>

\* Line 73: the sorted edges are exhausted.
LoopEnd ==
    /\ pc = "loop"
    /\ idx > Len(sorted_edges)
    /\ pc' = "check"
    /\ UNCHANGED <<instance, sorted_edges, sets, edges, idx, last, runs, prevTotal>>

\* Lines 104-111: the result is checked and returned.
CheckResult ==
    /\ pc = "check"
    /\ pc' = IF Cardinality(Check(edges)) = Len(instance) THEN "done" ELSE "assert_check"
    /\ UNCHANGED <<instance, sorted_edges, sets, edges, idx, last, runs, prevTotal>>

\* Lines 167-168, then mst() is called again on the same instance: the total of
\* the returned edges is kept, the locals of the call that returned are gone,
\* and the keys will be drawn anew.
Rerun ==
    /\ pc = "done"
    /\ runs < MaxRuns
    /\ runs' = runs + 1
    /\ prevTotal' = Total(edges)
    /\ sorted_edges' = <<>>
    /\ sets' = <<>>
    /\ edges' = <<>>
    /\ idx' = 1
    /\ last' = "none"
    /\ pc' = "start"
    /\ UNCHANGED instance

Next == MakeSortedEdges \/ LoopBody \/ LoopEnd \/ CheckResult

Spec == Init /\ [][Next]_vars

NextRuns == MakeSortedEdges \/ LoopBody \/ LoopEnd \/ CheckResult \/ Rerun

SpecRuns == Init /\ [][NextRuns]_vars

\* ------------------------------------------------------------------ graphs
\* The graph notions the properties are stated with; none of them reads sets.
N == Len(instance)

Nodes(n) == 0..(n - 1)

AllPairs(n) == {p \in Nodes(n) \X Nodes(n) : p[1] < p[2]}

\* The endpoint pairs of the edges es[1..k].
PairsOf(es, k) == {<<es[m].i, es[m].j>> : m \in 1..k}

\* The nodes reachable from the nodes S along the pairs T.
RECURSIVE Reach(_, _)
Reach(T, S) ==
    LET more == S \cup {p[2] : p \in {q \in T : q[1] \in S}}
                  \cup {p[1] : p \in {q \in T : q[2] \in S}}
    IN  IF more = S THEN S ELSE Reach(T, more)

Connected(T, a, b) == b \in Reach(T, {a})

IsSpanningTree(T, n) == Cardinality(T) = n - 1 /\ Reach(T, {0}) = Nodes(n)

RECURSIVE TreeCost(_, _)
TreeCost(inst, T) ==
    IF T = {} THEN 0
    ELSE LET p == CHOOSE q \in T : TRUE
         IN  distance(inst, p[1], p[2]) + TreeCost(inst, T \ {p})

\* The least total cost of a spanning tree of the complete graph on the points.
MinSpanningCost(inst) ==
    LET costs == {TreeCost(inst, T) : T \in {U \in SUBSET AllPairs(Len(inst)) : IsSpanningTree(U, Len(inst))}}
    IN  CHOOSE c \in costs : \A d \in costs : c <= d

\* ------------------------------------------------------------------ properties

\* C1: for n >= 2 points and any keys, the total cost of the edges mst()
\* returns is the least total cost of a spanning tree under the rounded
\* distances; for (0,0),(3,0),(3,4) the result is the edges 0-1 and 1-2,
\* total 7, without the edge 0-2.
C1_MinimumCost ==
    pc = "done" /\ N >= 2 =>
        /\ Total(edges) = MinSpanningCost(instance)
        /\ instance = ScenarioA =>
               /\ PairsOf(edges, Len(edges)) = {<<0, 1>>, <<1, 2>>}
               /\ Total(edges) = 7

C1_Witness ==
    /\ pc = "done"
    /\ instance = ScenarioA
    /\ PairsOf(edges, Len(edges)) = {<<0, 1>>, <<1, 2>>}

\* C2: for n >= 2 points, coincident points and equal costs included, mst()
\* returns exactly n - 1 edges.
C2_EdgeCount == pc = "done" /\ N >= 2 => Len(edges) = N - 1

C2_Witness ==
    /\ pc = "done"
    /\ instance = Coincident
    /\ Len(edges) = 2
    /\ Total(edges) = 1

\* C3: for n >= 2 points, when the loop has ended the endpoints of the
\* accepted edges are exactly 0..n-1, and the assertion of line 109 holds.
C3_Spanning ==
    N >= 2 =>
        /\ pc # "assert_check"
        /\ pc \in {"check", "done"} => Check(edges) = Nodes(N)

C3_Witness == pc = "done" /\ N = 4 /\ Check(edges) = 0..3

\* C4: every accepted edge joins two nodes that no path of the edges
\* accepted before it connects.
C4_Acyclic ==
    \A k \in 1..Len(edges) : ~Connected(PairsOf(edges, k - 1), edges[k].i, edges[k].j)

C4_Witness == N = 4 /\ Len(edges) = 3 /\ last = "MergesTwo"

\* C5: two calls of mst() on the same points that differ only in the keys
\* return the same total cost, equal costs included; the unit square gives 3.
C5_SameTotal ==
    pc = "done" /\ N >= 2 =>
        /\ runs >= 2 => Total(edges) = prevTotal
        /\ instance = ScenarioD => Total(edges) = 3

C5_Witness ==
    /\ pc = "done"
    /\ runs = 2
    /\ instance = ScenarioD
    /\ prevTotal = 3
    /\ \E k \in 1..Len(edges) : edges[k].key # 0

\* C6: with fewer than 2 points the call never returns normally.
C6_InvalidInput == N < 2 => pc # "done"

\* C7: for n >= 2 points no edge is examined once n - 1 edges are accepted:
\* the iteration that has just discarded an edge did not start with n - 1
\* accepted edges.
C7_StopsAtLastEdge == N >= 2 /\ Len(edges) = N - 1 => last # "Cyclic"

\* C8: for n >= 2 points, once n - 1 edges are accepted no step changes the
\* accepted edges: the edges left are discarded, and the result is the one
\* a loop stopped at n - 1 edges returns.
C8_RestDiscarded == [][N >= 2 /\ Len(edges) = N - 1 => edges' = edges]_vars

C8_Witness ==
    /\ pc = "done"
    /\ N = 4
    /\ Len(edges) = 3
    /\ last = "Cyclic"
    /\ sorted_edges[Len(sorted_edges)] # edges[3]

\* C9: after every iteration the sets are pairwise disjoint, their union is
\* the set of endpoints of the accepted edges, and each has two nodes or more.
C9_Partition ==
    /\ \A a, b \in 1..Len(sets) : a # b => sets[a] \cap sets[b] = {}
    /\ UNION {sets[a] : a \in 1..Len(sets)} = Check(edges)
    /\ \A a \in 1..Len(sets) : Cardinality(sets[a]) >= 2

C9_Witness == last = "MergesTwo" /\ Len(sets) = 1 /\ Len(edges) = 3

====
